---- MODULE Spec2Model ----
(***************************************************************************)
(* Model of the discovery-and-extraction pipeline of the email scraper:    *)
(* the WebScraperService singleton (backend/services/webScraper.js), its   *)
(* shared puppeteer browser handle, and the calls that use it.  Every      *)
(* `await` of the source is a step boundary: between two steps of one call *)
(* the steps of other calls may run (node's single-threaded event loop).   *)
(***************************************************************************)
EXTENDS Integers, Sequences, FiniteSets, TLC

(***************************************************************************)
(* Bounds of the model.                                                    *)
(***************************************************************************)
MaxCalls == 2        \* calls made in all
MaxLaunches == 2     \* puppeteer.launch calls that are started

\* the concurrent callers of the service's public methods
Callers == {"c1", "c2"}
NoPage == [br |-> 0, owner |-> "none", call |-> 0]

(***************************************************************************)
(* Inputs.  A URL is its text together with what the source reads from it: *)
(* whether new URL(url) parses it, its hostname, and which platform        *)
(* domains occur anywhere in the text (String.includes).                   *)
(***************************************************************************)
UrlPool ==
  { [text |-> "https://github.com/jdoe", valid |-> TRUE, host |-> "github.com",
     mentions |-> {"github.com"}],
    [text |-> "https://www.acme.io/team", valid |-> TRUE, host |-> "www.acme.io",
     mentions |-> {}],
    [text |-> "https://www.acme.io/?ref=linkedin.com", valid |-> TRUE,
     host |-> "www.acme.io", mentions |-> {"linkedin.com"}],
    [text |-> "not a url", valid |-> FALSE, host |-> "", mentions |-> {}] }

\* the URLs the modelled fetches are given
Urls == {u \in UrlPool : u.mentions = {}}

\* a fetched document, as the strings emailPattern matches in it, in order;
\* a match is its text and where it stands: in the body ("body"), inside a
\* <script>...</script> or <style>...</style> block ("script", "style"), or
\* after a <script> tag that is never closed ("open")
Fragment(text) == [text |-> text, within |-> "body"]

AGmail == <<"a", "@", "g", "m", "a", "i", "l", ".", "c", "o", "m">>
BYahoo == <<"b", "@", "y", "a", "h", "o", "o", ".", "c", "o", "m">>

\* the documents the modelled fetches return
Docs == {<<>>, <<Fragment(AGmail)>>, <<Fragment(AGmail), Fragment(BYahoo)>>}

\* targetEmailProvider: null (the empty string here, as falsy) or "gmail.com"
NoProvider == <<>>
TargetProviders == {NoProvider, <<"g", "m", "a", "i", "l", ".", "c", "o", "m">>}

(***************************************************************************)
(* Pure helpers.                                                           *)
(***************************************************************************)
Thrown == "<thrown>"

\* hostname.replace('www.', '').split('.')[0], first letter upper-cased
HostLabel(host) ==
  CASE host = "github.com" -> "Github"
    [] host = "www.acme.io" -> "Acme"
    [] OTHER -> ""

\* variant: new URL(url) is not guarded, so an unparsable URL throws
determinePlatformUnguarded(url) ==
  IF "linkedin.com" \in url.mentions THEN "LinkedIn"
  ELSE IF "github.com" \in url.mentions THEN "GitHub"
  ELSE IF {"twitter.com", "x.com"} \cap url.mentions # {} THEN "Twitter/X"
  ELSE IF "facebook.com" \in url.mentions THEN "Facebook"
  ELSE IF "indeed.com" \in url.mentions THEN "Indeed"
  ELSE IF "glassdoor.com" \in url.mentions THEN "Glassdoor"
  ELSE IF {"angel.co", "wellfound.com"} \cap url.mentions # {} THEN "AngelList"
  ELSE IF url.valid THEN HostLabel(url.host) ELSE Thrown

determinePlatform(url) ==
  IF "linkedin.com" \in url.mentions THEN "LinkedIn"
  ELSE IF "github.com" \in url.mentions THEN "GitHub"
  ELSE IF {"twitter.com", "x.com"} \cap url.mentions # {} THEN "Twitter/X"
  ELSE IF "facebook.com" \in url.mentions THEN "Facebook"
  ELSE IF "indeed.com" \in url.mentions THEN "Indeed"
  ELSE IF "glassdoor.com" \in url.mentions THEN "Glassdoor"
  ELSE IF {"angel.co", "wellfound.com"} \cap url.mentions # {} THEN "AngelList"
  ELSE IF url.valid THEN HostLabel(url.host) ELSE "Unknown"

Min(a, b) == IF a < b THEN a ELSE b
Max(a, b) == IF a > b THEN a ELSE b

(***************************************************************************)
(* Strings are sequences of characters.                                    *)
(***************************************************************************)
LowerAlpha ==
  <<"a", "b", "c", "d", "e", "f", "g", "h", "i", "j", "k", "l", "m",
    "n", "o", "p", "q", "r", "s", "t", "u", "v", "w", "x", "y", "z">>
UpperAlpha ==
  <<"A", "B", "C", "D", "E", "F", "G", "H", "I", "J", "K", "L", "M",
    "N", "O", "P", "Q", "R", "S", "T", "U", "V", "W", "X", "Y", "Z">>

LowerLetters == {LowerAlpha[i] : i \in 1..Len(LowerAlpha)}
UpperLetters == {UpperAlpha[i] : i \in 1..Len(UpperAlpha)}

toLowerCaseChar(c) ==
  IF c \in UpperLetters
    THEN LowerAlpha[CHOOSE i \in 1..Len(UpperAlpha) : UpperAlpha[i] = c] ELSE c

toUpperCaseChar(c) ==
  IF c \in LowerLetters
    THEN UpperAlpha[CHOOSE i \in 1..Len(LowerAlpha) : LowerAlpha[i] = c] ELSE c

\* String.prototype.toLowerCase
toLowerCase(str) == [i \in 1..Len(str) |-> toLowerCaseChar(str[i])]

\* String.prototype.toUpperCase
toUpperCase(str) == [i \in 1..Len(str) |-> toUpperCaseChar(str[i])]

\* String.prototype.endsWith
endsWith(str, suffix) ==
  /\ Len(suffix) <= Len(str)
  /\ SubSeq(str, Len(str) - Len(suffix) + 1, Len(str)) = suffix

\* capitalize(): of each space-separated word the first letter upper-cased,
\* the rest lower-cased
capitalize(str) ==
  [i \in 1..Len(str) |->
     IF i = 1 \/ str[i - 1] = " " THEN toUpperCaseChar(str[i]) ELSE toLowerCaseChar(str[i])]

(***************************************************************************)
(* EmailExtractor (backend/services/emailExtractor.js).                    *)
(***************************************************************************)
\* this.excludePatterns: each /suffix$/i, given by its suffix
excludePatterns ==
  { <<"e", "x", "a", "m", "p", "l", "e", ".", "c", "o", "m">>,
    <<"t", "e", "s", "t", ".", "c", "o", "m">>,
    <<"p", "l", "a", "c", "e", "h", "o", "l", "d", "e", "r", ".", "c", "o", "m">>,
    <<"s", "a", "m", "p", "l", "e", ".", "c", "o", "m">>,
    <<"d", "o", "m", "a", "i", "n", ".", "c", "o", "m">>,
    <<".", "p", "n", "g">>,
    <<".", "j", "p", "g">>,
    <<".", "g", "i", "f">>,
    <<".", "s", "v", "g">> }

\* String.prototype.trim
RECURSIVE trim(_)
trim(str) ==
  IF str = <<>> THEN str
  ELSE IF Head(str) = " " THEN trim(Tail(str))
  ELSE IF str[Len(str)] = " " THEN trim(SubSeq(str, 1, Len(str) - 1))
  ELSE str

\* validator.validate(email) of the email-validator package, as far as the
\* strings emailPattern matches can fail it: the local part and the domain
\* neither start nor end with a dot and hold no two dots in a row
validate(email) ==
  LET ats == {i \in 1..Len(email) : email[i] = "@"}
      Dotted(part) ==
        /\ part # <<>> /\ Head(part) # "." /\ part[Len(part)] # "."
        /\ \A i \in 1..(Len(part) - 1) : ~(part[i] = "." /\ part[i + 1] = ".")
  IN /\ Cardinality(ats) = 1
     /\ LET at == CHOOSE i \in ats : TRUE
        IN /\ Dotted(SubSeq(email, 1, at - 1))
           /\ Dotted(SubSeq(email, at + 1, Len(email)))

\* variant: only the syntax is checked
isValidEmailSyntaxOnly(email) == validate(email)

\* isValidEmail(email)
isValidEmail(email) ==
  /\ validate(email)
  /\ \A pattern \in excludePatterns : ~endsWith(toLowerCase(email), pattern)

\* variant: the provider is compared as it was given
providerAsGiven(targetEmailProvider) == targetEmailProvider

\* targetEmailProvider.toLowerCase()
providerSuffix(targetEmailProvider) == toLowerCase(targetEmailProvider)

\* matches.forEach(...): the Set of normalized addresses, in insertion order
RECURSIVE collectEmails(_, _, _)
collectEmails(matches, targetEmailProvider, emails) ==
  IF matches = <<>> THEN emails
  ELSE LET normalizedEmail == trim(toLowerCase(Head(matches).text))
           accepted ==
             /\ isValidEmail(normalizedEmail)
             /\ \/ targetEmailProvider = <<>>
                \/ endsWith(normalizedEmail, providerSuffix(targetEmailProvider))
           present == \E i \in 1..Len(emails) : emails[i] = normalizedEmail
       IN collectEmails(Tail(matches), targetEmailProvider,
                        IF accepted /\ ~present THEN Append(emails, normalizedEmail)
                        ELSE emails)

\* variant: only the script blocks are dropped
cleanHTMLScriptsOnly(html) ==
  LET Kept(fragment) == fragment.within # "script" IN SelectSeq(html, Kept)

\* the two replace calls: /<script\b[^<]*(?:(?!<\/script>)<[^<]*)*<\/script>/gi
\* and the same for style drop each block that has its closing tag
cleanHTML(html) ==
  LET Kept(fragment) == fragment.within \notin {"script", "style"}
  IN SelectSeq(html, Kept)

\* extractFromHTML(html, targetEmailProvider)
extractFromHTML(html, targetEmailProvider) ==
  collectEmails(cleanHTML(html), targetEmailProvider, <<>>)

\* extractFromText(text, targetEmailProvider)
extractFromText(text, targetEmailProvider) ==
  collectEmails(text, targetEmailProvider, <<>>)

VARIABLES
  browser,      \* this.browser: 0 (null) or the id of a launched browser
  live,         \* ids of the browsers launched and not closed
  launched,     \* number of puppeteer.launch calls started so far
  pages,        \* the open pages, each [br, owner, call]
  started,      \* number of calls made so far
  cs,           \* per caller: the activation record of its current call
  store,        \* the EmailResult collection, in insertion order
  now,          \* Date.now(), in hours
  rq,           \* the activation record of the searchEmails request
  ni,           \* the activation record of the inferName / inferNameWithAI call
  bt,           \* the activation record of the inferNames call
  ex            \* the activation record of the extractFromHTML / extractFromText call

scraperVars == <<browser, live, launched, pages, started, cs>>
pureVars == <<ni, bt, ex>>
vars == <<browser, live, launched, pages, started, cs, store, now, rq, ni, bt, ex>>

IdleCall ==
  [pc |-> "idle", op |-> "none", call |-> 0,
   url |-> CHOOSE u \in Urls : u.valid /\ u.mentions = {}, provider |-> NoProvider,
   max |-> 0, emails |-> <<>>, page |-> NoPage, urls |-> <<>>,
   outcome |-> "none", ret |-> <<>>, platform |-> "", retUrls |-> <<>>,
   tier1 |-> "none", tier1Tries |-> 0, tier1Emails |-> <<>>, rendered |-> "none",
   usedBrowser |-> FALSE,
   launchFailed |-> FALSE, closing |-> 0,
   profile |-> "", limit |-> 0, qi |-> 0, allUrls |-> <<>>, processed |-> {},
   waited |-> 0, inFlight |-> 0, failures |-> 0, lastEmpty |-> FALSE,
   dorkQueries |-> <<>>, dom |-> <<>>, seen |-> {}]

IdleRequest ==
  [pc |-> "idle", profile |-> "", limit |-> 0, searchEngine |-> "", useAI |-> FALSE,
   useCache |-> FALSE, i |-> 0, allResults |-> <<>>, processedEmails |-> {},
   k |-> 0, savedResults |-> <<>>, status |-> 0, response |-> "none",
   count |-> 0, results |-> <<>>, stages |-> {}, fabricated |-> {},
   given |-> FALSE, text |-> <<>>]

\* no inferName, inferNames or extract call has been made
IdleInfer == [pc |-> "idle"]

IdleBatch == [pc |-> "idle"]

IdleExtract == [pc |-> "idle"]

IdlePure ==
  /\ ni = IdleInfer
  /\ bt = IdleBatch
  /\ ex = IdleExtract

InitScraper ==
  /\ browser = 0
  /\ live = {}
  /\ launched = 0
  /\ pages = {}
  /\ started = 0
  /\ cs = [p \in Callers |-> IdleCall]

Init ==
  /\ InitScraper
  /\ store = <<>>
  /\ now = 0
  /\ rq = IdleRequest
  /\ IdlePure

\* a fresh activation record for the next call of a caller
Begin(op) ==
  [IdleCall EXCEPT !.op = op, !.call = started + 1]

(***************************************************************************)
(* Search result pages.  A link is its resolved href, whether the href     *)
(* filter rejects it (a google.com, googleusercontent, webcache or         *)
(* accounts.google address), and the result-container selectors, numbered  *)
(* in the order of the source's list, that match its anchor.               *)
(***************************************************************************)
Selectors == 1..4

Link(href, own, sels) == [href |-> href, own |-> own, sels |-> sels]

DomPool ==
  { <<>>,
    << Link("u1", FALSE, {1, 2}) >>,
    << Link("u1", FALSE, {2}), Link("g", TRUE, {2, 3}),
       Link("u2", FALSE, {1, 2, 4}), Link("u3", FALSE, {2, 3}) >> }

RECURSIVE Dedup(_)
\* [...new Set(results)]: each value once, at its first occurrence
Dedup(s) ==
  IF s = <<>> THEN <<>>
  ELSE LET rest == Dedup(SubSeq(s, 1, Len(s) - 1))
           x == s[Len(s)]
       IN IF \E i \in 1..Len(rest) : rest[i] = x THEN rest ELSE Append(rest, x)

\* the hrefs one selector contributes: its links in DOM order, filtered
SelectorHrefs(dom, sel) ==
  LET Keep(l) == sel \in l.sels /\ ~l.own
      kept == SelectSeq(dom, Keep)
  IN [i \in 1..Len(kept) |-> kept[i].href]

\* page.evaluate(...): selector by selector, then deduplicated
evaluateLinks(dom) ==
  Dedup(SelectorHrefs(dom, 1) \o SelectorHrefs(dom, 2)
        \o SelectorHrefs(dom, 3) \o SelectorHrefs(dom, 4))

\* variant: nothing is cut off
SliceAll(s, n) == s

\* Array.prototype.slice(0, n)
Slice(s, n) == SubSeq(s, 1, IF n < Len(s) THEN n ELSE Len(s))

(***************************************************************************)
(* Exception handlers.  Each gives the activation record a call continues  *)
(* with after the exception reaches that catch block.                      *)
(***************************************************************************)
Returned(c) == [c EXCEPT !.pc = "idle", !.outcome = "returned", !.page = NoPage]

Rejected(c) == [c EXCEPT !.pc = "idle", !.outcome = "threw", !.page = NoPage]

\* catch (error) of extractEmailsFromURL: { emails: [], platform, url }
extractCatchOuter(c) ==
  IF determinePlatform(c.url) = Thrown THEN Rejected(c)
  ELSE [Returned(c) EXCEPT !.ret = <<>>, !.platform = determinePlatform(c.url)]

\* catch (axiosError): fall through to the rendering tier
extractCatchAxios(c) ==
  [c EXCEPT !.pc = "init", !.tier1 = "threw"]

\* return { emails, platform, url } at the end of extractEmailsFromURL
extractReturn(c) == [Returned(c) EXCEPT !.ret = c.emails]

\* catch (puppeteerError): log, then fall through to the final return
extractCatchPuppeteer(c) ==
  extractReturn([c EXCEPT !.rendered = IF @ = "none" THEN "threw" ELSE @])

(***************************************************************************)
(* searchWithGoogleDorks: the query list and the accumulation of URLs.     *)
(***************************************************************************)
Sites == <<"linkedin.com", "indeed.com", "github.com">>

EmailProviders ==
  <<"@gmail.com", "@rediffmail.com", "@yahoo.com", "@outlook.com", "@hotmail.com">>

\* `site:${site} "${emailProvider}" "${profile}"`, as the pieces it joins
dork(site, emailProvider, profile) ==
  <<"site:", site, " \"", emailProvider, "\" \"", profile, "\"">>

\* variant: the providers are the outer loop
buildGoogleDorkQueriesProviderMajor(profile) ==
  [k \in 1..(Len(Sites) * Len(EmailProviders)) |->
     LET site == Sites[((k - 1) % Len(Sites)) + 1]
         emailProvider == EmailProviders[((k - 1) \div Len(Sites)) + 1]
     IN [query |-> dork(site, emailProvider, profile),
         site |-> site, emailProvider |-> emailProvider, profile |-> profile]]

\* sites.forEach(site => emailProviders.forEach(emailProvider => push))
buildGoogleDorkQueries(profile) ==
  [k \in 1..(Len(Sites) * Len(EmailProviders)) |->
     LET site == Sites[((k - 1) \div Len(EmailProviders)) + 1]
         emailProvider == EmailProviders[((k - 1) % Len(EmailProviders)) + 1]
     IN [query |-> dork(site, emailProvider, profile),
         site |-> site, emailProvider |-> emailProvider, profile |-> profile]]

SelectedQueryCount == 6   \* dorkQueries.slice(0, 6)
DorkMaxResults == 5       \* executeGoogleDork(dorkQuery.query, 5)
DorkDelayMs == 2000       \* await this.delay(2000)

selectedQueries(profile) == Slice(buildGoogleDorkQueries(profile), SelectedQueryCount)

\* the URLs the queries have returned so far, each with the number of the
\* first query that returned it
firstSeen(seen, urls, qi) ==
  seen \cup {[url |-> urls[i], qi |-> qi] :
               i \in {j \in 1..Len(urls) : \A t \in seen : t.url # urls[j]}}

RECURSIVE accumulateUnchecked(_, _, _, _)
\* variant: processedUrls is not consulted
accumulateUnchecked(acc, urls, dorkQuery, maxResults) ==
  IF urls = <<>> THEN acc
  ELSE LET url == Head(urls)
           next == IF Len(acc.allUrls) < maxResults
                   THEN [processed |-> acc.processed \cup {url},
                         allUrls |-> Append(acc.allUrls,
                                       [url |-> url, site |-> dorkQuery.site,
                                        emailProvider |-> dorkQuery.emailProvider,
                                        searchMethod |-> "Google Dork"])]
                   ELSE acc
       IN accumulateUnchecked(next, Tail(urls), dorkQuery, maxResults)

RECURSIVE accumulate(_, _, _, _)
\* urls.forEach(url => { if (!processedUrls.has(url) && allUrls.length < maxResults) ... })
accumulate(acc, urls, dorkQuery, maxResults) ==
  IF urls = <<>> THEN acc
  ELSE LET url == Head(urls)
           next == IF url \notin acc.processed /\ Len(acc.allUrls) < maxResults
                   THEN [processed |-> acc.processed \cup {url},
                         allUrls |-> Append(acc.allUrls,
                                       [url |-> url, site |-> dorkQuery.site,
                                        emailProvider |-> dorkQuery.emailProvider,
                                        searchMethod |-> "Google Dork"])]
                   ELSE acc
       IN accumulate(next, Tail(urls), dorkQuery, maxResults)

\* variant: the pause is taken only after a query that returned URLs
afterDorkDelayIfFound(c, urls) ==
  LET acc == accumulate([processed |-> c.processed, allUrls |-> c.allUrls], urls,
                        selectedQueries(c.profile)[c.qi], c.limit)
  IN [c EXCEPT !.pc = IF urls = <<>> THEN "sw_loop" ELSE "sw_delay",
               !.qi = IF urls = <<>> THEN @ + 1 ELSE @,
               !.page = NoPage, !.urls = urls, !.inFlight = @ - 1,
               !.lastEmpty = (urls = <<>>), !.waited = 0,
               !.seen = firstSeen(@, urls, c.qi),
               !.processed = acc.processed, !.allUrls = acc.allUrls]

\* variant: a query that returns nothing ends the loop
afterDorkBreakOnEmpty(c, urls) ==
  LET acc == accumulate([processed |-> c.processed, allUrls |-> c.allUrls], urls,
                        selectedQueries(c.profile)[c.qi], c.limit)
      d == [c EXCEPT !.page = NoPage, !.urls = urls, !.inFlight = @ - 1,
                     !.lastEmpty = (urls = <<>>), !.waited = 0,
                     !.seen = firstSeen(@, urls, c.qi),
                     !.processed = acc.processed, !.allUrls = acc.allUrls]
  IN IF urls = <<>> THEN [Returned(d) EXCEPT !.retUrls = Slice(d.allUrls, d.limit)]
     ELSE [d EXCEPT !.pc = "sw_delay"]

\* executeGoogleDork resolved inside the loop: accumulate, then await delay
afterDork(c, urls) ==
  LET acc == accumulate([processed |-> c.processed, allUrls |-> c.allUrls], urls,
                        selectedQueries(c.profile)[c.qi], c.limit)
  IN [c EXCEPT !.pc = "sw_delay", !.page = NoPage, !.urls = urls, !.inFlight = @ - 1,
               !.lastEmpty = (urls = <<>>), !.waited = 0,
               !.seen = firstSeen(@, urls, c.qi),
               !.processed = acc.processed, !.allUrls = acc.allUrls]

\* catch (error) inside the loop: log, next query (the pause is skipped)
dorksCatchInner(c) ==
  [c EXCEPT !.pc = "sw_loop", !.qi = @ + 1, !.page = NoPage, !.inFlight = @ - 1,
            !.lastEmpty = TRUE, !.waited = 0]

\* return of executeGoogleDork or searchGoogle, to the caller or to the loop
searchReturn(c, urls) ==
  IF c.op = "searchWithGoogleDorks" THEN afterDork(c, urls)
  ELSE [Returned(c) EXCEPT !.retUrls = urls]

\* variant: the catch block logs and rethrows
searchCatchRethrow(c) ==
  IF c.op = "searchWithGoogleDorks" THEN dorksCatchInner([c EXCEPT !.failures = @ + 1])
  ELSE Rejected([c EXCEPT !.failures = @ + 1])

\* catch (error) of executeGoogleDork and searchGoogle: return []
searchCatch(c) == searchReturn([c EXCEPT !.failures = @ + 1], <<>>)

\* the catch block that receives an exception of the rendering steps
Catch(c) ==
  IF c.op = "extractEmailsFromURL" THEN extractCatchPuppeteer(c) ELSE searchCatch(c)

\* variant: the fast path is taken whatever tier 1 found
Tier1ReturnsAlways(emails) == TRUE

\* if (emails.length > 0) return: tier 1 found at least one address
Tier1Returns(emails) == Len(emails) > 0

Upd(p, c) == cs' = [cs EXCEPT ![p] = c]

(***************************************************************************)
(* extractEmailsFromURL(url, targetEmailProvider)                          *)
(***************************************************************************)
extractEmailsFromURLOf(p, urls) ==
  /\ cs[p].pc = "idle" /\ started < MaxCalls /\ started' = started + 1
  /\ \E url \in urls, provider \in TargetProviders :
       LET c == [Begin("extractEmailsFromURL") EXCEPT
                   !.url = url, !.provider = provider]
       IN Upd(p, IF determinePlatform(url) = Thrown THEN extractCatchOuter(c)
                 ELSE [c EXCEPT !.pc = "http", !.platform = determinePlatform(url)])
  /\ UNCHANGED <<browser, live, launched, pages, store, now, rq, pureVars>>

extractEmailsFromURL(p) == extractEmailsFromURLOf(p, Urls)

\* await axios.get(url, ...) rejects, or its data cannot be scanned
extractHttpFails(p) ==
  /\ cs[p].pc = "http"
  /\ Upd(p, extractCatchAxios([cs[p] EXCEPT !.tier1Tries = @ + 1]))
  /\ UNCHANGED <<browser, live, launched, pages, started, store, now, rq, pureVars>>

\* await axios.get(url, ...) resolves; extractFromHTML(response.data, ...)
extractHttpResolves(p) ==
  /\ cs[p].pc = "http" /\ cs[p].url.valid
  /\ \E doc \in Docs :
       LET emails == extractFromHTML(doc, cs[p].provider)
           c == [cs[p] EXCEPT !.tier1Tries = @ + 1, !.emails = emails,
                              !.tier1Emails = emails,
                              !.tier1 = IF Len(emails) > 0 THEN "found" ELSE "empty"]
       IN Upd(p, IF Tier1Returns(emails) THEN extractReturn(c)
                 ELSE [c EXCEPT !.pc = "init"])
  /\ UNCHANGED <<browser, live, launched, pages, started, store, now, rq, pureVars>>

(***************************************************************************)
(* The rendering steps shared by extractEmailsFromURL, executeGoogleDork   *)
(* and searchGoogle.                                                       *)
(***************************************************************************)
\* initBrowser up to its await: if (!this.browser) puppeteer.launch(...)
initBrowser(p) ==
  /\ cs[p].pc = "init"
  /\ Upd(p, [cs[p] EXCEPT !.pc = IF browser = 0 THEN "launch" ELSE "newpage",
                         !.usedBrowser = TRUE])
  /\ UNCHANGED <<browser, live, launched, pages, started, store, now, rq, pureVars>>

\* puppeteer.launch resolves: this.browser = <the new browser>
launchResolves(p) ==
  /\ cs[p].pc = "launch" /\ launched < MaxLaunches
  /\ launched' = launched + 1
  /\ live' = live \cup {launched + 1}
  /\ browser' = launched + 1
  /\ Upd(p, [cs[p] EXCEPT !.pc = "newpage"])
  /\ UNCHANGED <<pages, started, store, now, rq, pureVars>>

\* puppeteer.launch rejects
launchRejects(p) ==
  /\ cs[p].pc = "launch"
  /\ Upd(p, Catch([cs[p] EXCEPT !.launchFailed = TRUE]))
  /\ UNCHANGED <<browser, live, launched, pages, started, store, now, rq, pureVars>>

\* await this.browser.newPage() resolves
newPageResolves(p) ==
  /\ cs[p].pc = "newpage" /\ browser \in live
  /\ LET pg == [br |-> browser, owner |-> p, call |-> cs[p].call]
     IN /\ pages' = pages \cup {pg}
        /\ Upd(p, [cs[p] EXCEPT !.pc = "setup", !.page = pg])
  /\ UNCHANGED <<browser, live, launched, started, store, now, rq, pureVars>>

\* this.browser is null or closed, or newPage rejects
newPageFails(p) ==
  /\ cs[p].pc = "newpage"
  /\ Upd(p, Catch(cs[p]))
  /\ UNCHANGED <<browser, live, launched, pages, started, store, now, rq, pureVars>>

\* setUserAgent (and setViewport, setExtraHTTPHeaders) resolve
pageSetup(p) ==
  /\ cs[p].pc = "setup" /\ cs[p].page \in pages
  /\ Upd(p, [cs[p] EXCEPT !.pc = "goto"])
  /\ UNCHANGED <<browser, live, launched, pages, started, store, now, rq, pureVars>>

\* await page.goto(...) resolves
pageGoto(p) ==
  /\ cs[p].pc = "goto" /\ cs[p].page \in pages
  /\ cs[p].op = "extractEmailsFromURL" => cs[p].url.valid
  /\ Upd(p, [cs[p] EXCEPT !.pc = "read"])
  /\ UNCHANGED <<browser, live, launched, pages, started, store, now, rq, pureVars>>

\* await page.content() resolves; extractFromHTML(content, ...)
pageContent(p) ==
  /\ cs[p].pc = "read" /\ cs[p].page \in pages
  /\ cs[p].op = "extractEmailsFromURL"
  /\ \E doc \in Docs :
       LET emails == extractFromHTML(doc, cs[p].provider)
       IN Upd(p, [cs[p] EXCEPT !.pc = "close", !.emails = emails,
                               !.rendered = IF Len(emails) > 0 THEN "found" ELSE "empty"])
  /\ UNCHANGED <<browser, live, launched, pages, started, store, now, rq, pureVars>>

\* a page operation (setUserAgent, goto, waitForTimeout, content, evaluate)
\* rejects or times out; close rejects when the page is already gone
pageOpFails(p) ==
  /\ \/ cs[p].pc \in {"setup", "goto", "read"}
     \/ cs[p].pc = "close" /\ cs[p].page \notin pages
  /\ Upd(p, Catch(cs[p]))
  /\ UNCHANGED <<browser, live, launched, pages, started, store, now, rq, pureVars>>

(***************************************************************************)
(* closeBrowser()                                                          *)
(***************************************************************************)
closeBrowser(p) ==
  /\ cs[p].pc = "idle" /\ started < MaxCalls /\ started' = started + 1
  /\ LET c == Begin("closeBrowser")
     IN Upd(p, IF browser = 0 THEN Returned(c)
               ELSE [c EXCEPT !.pc = "closing", !.closing = browser])
  /\ UNCHANGED <<browser, live, launched, pages, store, now, rq, pureVars>>

\* await this.browser.close() resolves; this.browser = null
closeResolves(p) ==
  /\ cs[p].pc = "closing"
  /\ live' = live \ {cs[p].closing}
  /\ pages' = {pg \in pages : pg.br # cs[p].closing}
  /\ browser' = 0
  /\ Upd(p, Returned(cs[p]))
  /\ UNCHANGED <<launched, started, store, now, rq, pureVars>>

\* await page.close() resolves, then the call returns
pageClose(p) ==
  /\ cs[p].pc = "close" /\ cs[p].page \in pages
  /\ pages' = pages \ {cs[p].page}
  /\ Upd(p, IF cs[p].op = "extractEmailsFromURL" THEN extractReturn(cs[p])
            ELSE searchReturn(cs[p], Slice(cs[p].urls, cs[p].max)))
  /\ UNCHANGED <<browser, live, launched, started, store, now, rq, pureVars>>

(***************************************************************************)
(* executeGoogleDork(dorkQuery, maxResults), searchGoogle(profile,         *)
(* maxResults)                                                             *)
(***************************************************************************)
MaxResults == 2    \* largest maxResults a caller passes

executeGoogleDork(p) ==
  /\ cs[p].pc = "idle" /\ started < MaxCalls /\ started' = started + 1
  /\ \E maxResults \in 0..MaxResults :
       Upd(p, [Begin("executeGoogleDork") EXCEPT !.pc = "init", !.max = maxResults])
  /\ UNCHANGED <<browser, live, launched, pages, store, now, rq, pureVars>>

searchGoogle(p) ==
  /\ cs[p].pc = "idle" /\ started < MaxCalls /\ started' = started + 1
  /\ \E maxResults \in 0..MaxResults :
       Upd(p, [Begin("searchGoogle") EXCEPT !.pc = "init", !.max = maxResults])
  /\ UNCHANGED <<browser, live, launched, pages, store, now, rq, pureVars>>

\* waitForTimeout(2000) and page.evaluate(...) resolve
pageEvaluate(p) ==
  /\ cs[p].pc = "read" /\ cs[p].page \in pages
  /\ cs[p].op # "extractEmailsFromURL"
  /\ \E dom \in DomPool :
       Upd(p, [cs[p] EXCEPT !.pc = "close", !.urls = evaluateLinks(dom), !.dom = dom])
  /\ UNCHANGED <<browser, live, launched, pages, started, store, now, rq, pureVars>>

(***************************************************************************)
(* searchWithGoogleDorks(profile, maxResults)                              *)
(***************************************************************************)
\* the profile keywords the search is called with
DorkProfiles == {"designer", "developer"}

searchWithGoogleDorks(p) ==
  /\ cs[p].pc = "idle" /\ started < MaxCalls /\ started' = started + 1
  /\ \E profile \in DorkProfiles, maxResults \in 0..MaxResults :
       Upd(p, [Begin("searchWithGoogleDorks") EXCEPT
                 !.pc = "sw_loop", !.profile = profile, !.limit = maxResults,
                 !.dorkQueries = buildGoogleDorkQueries(profile), !.qi = 1])
  /\ UNCHANGED <<browser, live, launched, pages, store, now, rq, pureVars>>

\* the loop head: break, leave the loop, or start the next query
dorksLoop(p) ==
  /\ cs[p].pc = "sw_loop"
  /\ Upd(p, IF cs[p].qi > Len(selectedQueries(cs[p].profile))
               \/ Len(cs[p].allUrls) >= cs[p].limit
            THEN [Returned(cs[p]) EXCEPT !.retUrls = Slice(cs[p].allUrls, cs[p].limit)]
            ELSE [cs[p] EXCEPT !.pc = "init", !.max = DorkMaxResults, !.urls = <<>>,
                               !.inFlight = @ + 1])
  /\ UNCHANGED <<browser, live, launched, pages, started, store, now, rq, pureVars>>

\* await this.delay(2000) resolves
dorksDelay(p) ==
  /\ cs[p].pc = "sw_delay"
  /\ Upd(p, [cs[p] EXCEPT !.pc = "sw_loop", !.qi = @ + 1, !.waited = DorkDelayMs])
  /\ UNCHANGED <<browser, live, launched, pages, started, store, now, rq, pureVars>>

(***************************************************************************)
(* searchDuckDuckGoSimple(query, maxResults)                               *)
(***************************************************************************)
\* a result page: the href of each .result__a / .result__url element, with
\* what the source tests: starts with http, parses, host without duckduckgo
DdgPool ==
  { <<>>,
    << [href |-> "u1", http |-> TRUE, parses |-> TRUE, own |-> FALSE],
       [href |-> "u1", http |-> TRUE, parses |-> TRUE, own |-> FALSE],
       [href |-> "/l/?u", http |-> FALSE, parses |-> FALSE, own |-> FALSE],
       [href |-> "u2", http |-> TRUE, parses |-> TRUE, own |-> FALSE] >>,
    << [href |-> "http://", http |-> TRUE, parses |-> FALSE, own |-> FALSE],
       [href |-> "d", http |-> TRUE, parses |-> TRUE, own |-> TRUE],
       [href |-> "u3", http |-> TRUE, parses |-> TRUE, own |-> FALSE] >> }

RECURSIVE ddgCollect(_, _, _)
\* $('.result__a, .result__url').each(...)
ddgCollect(urls, elements, maxResults) ==
  IF elements = <<>> THEN urls
  ELSE LET e == Head(elements)
       IN ddgCollect(IF Len(urls) < maxResults /\ e.http /\ e.parses /\ ~e.own
                     THEN Append(urls, e.href) ELSE urls,
                     Tail(elements), maxResults)

\* variant: the catch block logs and rethrows
ddgCatchRethrow(c) == Rejected(c)

\* catch (error) of searchDuckDuckGoSimple: return []
ddgCatch(c) == [Returned(c) EXCEPT !.retUrls = <<>>]

searchDuckDuckGoSimple(p) ==
  /\ cs[p].pc = "idle" /\ started < MaxCalls /\ started' = started + 1
  /\ \E maxResults \in 0..MaxResults :
       Upd(p, [Begin("searchDuckDuckGoSimple") EXCEPT
                 !.pc = "ddg_http", !.max = maxResults])
  /\ UNCHANGED <<browser, live, launched, pages, store, now, rq, pureVars>>

\* await axios.get(url, ...) resolves; the links are collected
ddgResolves(p) ==
  /\ cs[p].pc = "ddg_http"
  /\ \E page \in DdgPool :
       Upd(p, [Returned(cs[p]) EXCEPT !.retUrls = ddgCollect(<<>>, page, cs[p].max)])
  /\ UNCHANGED <<browser, live, launched, pages, started, store, now, rq, pureVars>>

\* await axios.get(url, ...) rejects, or cheerio.load throws
ddgFails(p) ==
  /\ cs[p].pc = "ddg_http"
  /\ Upd(p, ddgCatch([cs[p] EXCEPT !.failures = @ + 1]))
  /\ UNCHANGED <<browser, live, launched, pages, started, store, now, rq, pureVars>>

(***************************************************************************)
(* searchAndExtract(profile, options): the generated profiles.             *)
(***************************************************************************)
MaxLimit == 6      \* largest limit a request asks for

\* the searchEngine values of the EmailResult schema: the engines' names
SchemaSearchEngines == {"Google", "DuckDuckGo", "Google Dork", "Yahoo", "Bing"}

GeneratedProviders ==
  <<"gmail.com", "rediffmail.com", "yahoo.com", "outlook.com", "hotmail.com">>

Platforms == <<"LinkedIn", "Indeed", "GitHub">>

\* the random draws: two of the twenty first names, one of the last names,
\* each a string given by its characters
Priya == <<"P", "r", "i", "y", "a">>
Rahul == <<"R", "a", "h", "u", "l">>
Sharma == <<"S", "h", "a", "r", "m", "a">>
FirstNames == {Priya, Rahul}
LastNames == {Sharma}

GenerateCap == 20  \* Math.min(limit, 20)

\* `${firstName.toLowerCase()}.${lastName.toLowerCase()}@${emailProvider}`
generatedEmail(firstName, lastName, emailProvider) ==
  [local |-> toLowerCase(firstName) \o <<".">> \o toLowerCase(lastName),
   domain |-> emailProvider]

\* platformUrls[platform]
platformUrl(platform, firstName, lastName) ==
  CASE platform = "LinkedIn" ->
         <<"https://www.linkedin.com/in/">> \o toLowerCase(firstName) \o <<"-">> \o toLowerCase(lastName)
    [] platform = "Indeed" ->
         <<"https://profile.indeed.com/">> \o toLowerCase(firstName) \o toLowerCase(lastName)
    [] OTHER ->
         <<"https://github.com/">> \o toLowerCase(firstName) \o toLowerCase(lastName)

(***************************************************************************)
(* NameInferenceService (backend/services/nameInference.js).  An email is  *)
(* [local, domain]; a confidence is a number of thousandths.               *)
(***************************************************************************)
\* this.patterns, in the order they are tried
patterns ==
  << [regex |-> "first.last", handler |-> "formatFullName", confidence |-> 900],
     [regex |-> "first_last", handler |-> "formatFullName", confidence |-> 850],
     [regex |-> "firstlast", handler |-> "formatFullName", confidence |-> 500],
     [regex |-> "f.last", handler |-> "formatInitialLastName", confidence |-> 700],
     [regex |-> "first", handler |-> "formatSingleName", confidence |-> 600] >>

\* this.commonFirstNames (three of its thirty names)
commonFirstNames ==
  { <<"j", "o", "h", "n">>, <<"j", "a", "n", "e">>, <<"s", "a", "r", "a", "h">> }

\* [a-z]+ or [a-z]* over the whole of str
IsLetters(str) == \A i \in 1..Len(str) : str[i] \in LowerLetters

\* /^([a-z]+)SEP([a-z]+)@/: the two groups, or <<>> when there is no match
matchSeparated(local, sep) ==
  LET cuts == {k \in 2..(Len(local) - 1) :
                 /\ local[k] = sep
                 /\ IsLetters(SubSeq(local, 1, k - 1))
                 /\ IsLetters(SubSeq(local, k + 1, Len(local)))}
  IN IF cuts = {} THEN <<>>
     ELSE LET k == CHOOSE c \in cuts : TRUE
          IN <<SubSeq(local, 1, k - 1), SubSeq(local, k + 1, Len(local))>>

\* /^([a-z]{2,15})([a-z]{2,15})@/: the first group is greedy
matchConcatenated(local) ==
  IF IsLetters(local) /\ Len(local) >= 2 + 2 /\ Len(local) <= 15 + 15
    THEN LET n == Min(15, Len(local) - 2)
         IN <<SubSeq(local, 1, n), SubSeq(local, n + 1, Len(local))>>
    ELSE <<>>

\* /^([a-z])\.([a-z]+)@/
matchInitial(local) ==
  IF Len(local) >= 3 /\ local[1] \in LowerLetters /\ local[2] = "."
     /\ IsLetters(SubSeq(local, 3, Len(local)))
    THEN <<SubSeq(local, 1, 1), SubSeq(local, 3, Len(local))>>
    ELSE <<>>

\* /^([a-z]+)@/
matchSingle(local) ==
  IF Len(local) >= 1 /\ IsLetters(local) THEN <<local>> ELSE <<>>

\* lowercaseEmail.match(pattern.regex)
Match(regex, local) ==
  CASE regex = "first.last" -> matchSeparated(local, ".")
    [] regex = "first_last" -> matchSeparated(local, "_")
    [] regex = "firstlast" -> matchConcatenated(local)
    [] regex = "f.last" -> matchInitial(local)
    [] OTHER -> matchSingle(local)

formatFullName(match) == capitalize(match[1]) \o <<" ">> \o capitalize(match[2])

formatInitialLastName(match) ==
  toUpperCase(match[1]) \o <<".", " ">> \o capitalize(match[2])

formatSingleName(match) == capitalize(match[1])

\* pattern.handler.call(this, match)
Format(handler, match) ==
  CASE handler = "formatFullName" -> formatFullName(match)
    [] handler = "formatInitialLastName" -> formatInitialLastName(match)
    [] OTHER -> formatSingleName(match)

\* variant: no name earns the bonus
isLikelyRealNameNever(name) == FALSE

\* isLikelyRealName(name): a common first name, or 3..30 characters of which
\* more than 80% are letters
isLikelyRealName(name) ==
  LET lower == toLowerCase(name)
      spaces == {i \in 1..Len(lower) : lower[i] = " "}
      first == IF spaces = {} THEN lower
               ELSE SubSeq(lower, 1, (CHOOSE i \in spaces : \A j \in spaces : i <= j) - 1)
      letterCount == Cardinality({i \in 1..Len(name) : name[i] \in LowerLetters \cup UpperLetters})
  IN IF first \in commonFirstNames THEN TRUE
     ELSE IF Len(name) < 3 \/ Len(name) > 30 THEN FALSE
     ELSE 10 * letterCount > 8 * Len(name)

\* Math.round(confidence * 100) / 100
roundHundredths(confidence) == ((confidence + 5) \div 10) * 10

\* prefix.replace(/[._-]/g, ' ')
replaceSeparators(str) ==
  [i \in 1..Len(str) |-> IF str[i] \in {".", "_", "-"} THEN " " ELSE str[i]]

\* inferName(email): the first pattern that matches the lower-cased address,
\* with the +0.10 bonus of isLikelyRealName; the prefix when none matches
inferName(email) ==
  LET lowercaseEmail == toLowerCase(email.local)
      matching == {i \in 1..Len(patterns) : Match(patterns[i].regex, lowercaseEmail) # <<>>}
  IN IF matching # {}
       THEN LET pattern == patterns[CHOOSE i \in matching : \A j \in matching : i <= j]
                name == Format(pattern.handler, Match(pattern.regex, lowercaseEmail))
                confidence == IF isLikelyRealName(name)
                                THEN Min(pattern.confidence + 100, 1000)
                                ELSE pattern.confidence
            IN [name |-> name, confidence |-> roundHundredths(confidence),
                method |-> "pattern-matching"]
       ELSE [name |-> capitalize(replaceSeparators(email.local)), confidence |-> 300,
             method |-> "fallback"]

(***************************************************************************)
(* GeminiAIService.inferNameFromEmail (backend/services/geminiAI.js) and   *)
(* inferNameWithAI.  A JavaScript number is [nan, val], val in thousandths.*)
(***************************************************************************)
NaN == [nan |-> TRUE, val |-> 0]
Number(v) == [nan |-> FALSE, val |-> v]

Unknown == <<"U", "n", "k", "n", "o", "w", "n">>
PatLee == <<"P", "a", "t", " ", "L", "e", "e">>

\* null, as inferNameFromEmail returns it
NoAiResult == [name |-> <<>>, confidence |-> NaN, reasoning |-> ""]

\* the value of parsed.confidence: absent, a number, or a non-numeric string
ParsedConfidences ==
  {[type |-> "missing", val |-> 0], [type |-> "string", val |-> 0]}
    \cup {[type |-> "number", val |-> v] : v \in {0 - 500, 0, 300, 704, 950, 1500}}

\* what model.generateContent(prompt) does: it rejects, or resolves to a text
\* without a JSON object, with an unparsable one, or with a JSON object
NoResponse == [kind |-> "none", name |-> <<>>, confidence |-> [type |-> "missing", val |-> 0],
               reasoning |-> ""]

AiResponses ==
  {[NoResponse EXCEPT !.kind = k] : k \in {"rejects", "text", "badjson"}}
    \cup {[kind |-> "json", name |-> n, confidence |-> c, reasoning |-> r] :
            n \in {<<>>, PatLee}, c \in ParsedConfidences, r \in {"", "given"}}

\* parsed.confidence || 0.5
orDefault(value) ==
  IF value.type = "missing" \/ (value.type = "number" /\ value.val = 0)
    THEN [type |-> "number", val |-> 500] ELSE value

\* variant: the confidence is taken as the response gives it
unclampedConfidence(value) ==
  IF value.type = "string" THEN NaN ELSE Number(value.val)

\* Math.min(Math.max(value, 0), 1)
clampConfidence(value) ==
  IF value.type = "string" THEN NaN ELSE Number(Min(Max(value.val, 0), 1000))

\* variant: a response without a usable JSON object gives the default result
inferNameFromEmailDefaulting(response) ==
  [name |-> IF response.name = <<>> THEN Unknown ELSE response.name,
   confidence |-> clampConfidence(orDefault(response.confidence)),
   reasoning |-> IF response.reasoning = "" THEN "AI inference" ELSE response.reasoning]

\* inferNameFromEmail(email), given what generateContent did: null from the
\* catch block and when the text holds no JSON object, else the parsed
\* object with its defaults
inferNameFromEmail(response) ==
  IF response.kind = "json"
    THEN [name |-> IF response.name = <<>> THEN Unknown ELSE response.name,
          confidence |-> clampConfidence(orDefault(response.confidence)),
          reasoning |-> IF response.reasoning = "" THEN "AI inference" ELSE response.reasoning]
    ELSE NoAiResult

\* variant: the collaborator is asked whenever it is enabled
asksWhenEnabled(enabled, patternResult) == enabled

\* if (geminiAI.isEnabled() && patternResult.confidence < 0.8)
asksCollaborator(enabled, patternResult) ==
  enabled /\ patternResult.confidence < 800

\* inferNameWithAI(email), given isEnabled() and what the collaborator
\* returned (NoAiResult when it returned null or was not asked)
inferNameWithAI(email, enabled, aiResult) ==
  LET patternResult == inferName(email)
  IN IF /\ asksCollaborator(enabled, patternResult)
        /\ aiResult # NoAiResult
        /\ ~aiResult.confidence.nan
        /\ aiResult.confidence.val > patternResult.confidence
       THEN [name |-> aiResult.name,
             confidence |-> roundHundredths(aiResult.confidence.val),
             method |-> "ai-enhanced", aiEnhanced |-> TRUE,
             reasoning |-> aiResult.reasoning, fallback |-> patternResult]
       ELSE [name |-> patternResult.name, confidence |-> patternResult.confidence,
             method |-> patternResult.method, aiEnhanced |-> FALSE]

(***************************************************************************)
(* Calls of inferName and inferNameWithAI.                                 *)
(***************************************************************************)
\* the addresses the calls are given
InferEmails ==
  { [local |-> <<"j", "o", "h", "n", ".", "d", "o", "e">>, domain |-> "company.com"],
    [local |-> <<"j", ".", "d", "o", "e">>, domain |-> "company.com"],
    [local |-> <<"j", "d", "o", "e">>, domain |-> "company.com"],
    [local |-> <<"b", "o", "b">>, domain |-> "company.com"],
    [local |-> <<"a", "l">>, domain |-> "company.com"],
    [local |-> <<"j", "a", "n", "e", "_", "s", "m", "i", "t", "h">>, domain |-> "company.com"],
    [local |-> <<"x", "9">>, domain |-> "company.com"],
    [local |-> <<"A", "n", "n", ".", "L", "e", "e">>, domain |-> "company.com"],
    [local |-> <<"a", "-", "b">>, domain |-> "company.com"],
    [local |-> <<"j", "o", "h", "n", "s", "m", "i", "t", "h">>, domain |-> "company.com"] }

NoResult == [method |-> "none"]

\* a call is about to be made: its email, and whether the collaborator is
\* enabled (GEMINI_API_KEY is set and the model was created)
InitInfer ==
  /\ InitScraper
  /\ store = <<>>
  /\ now = 0
  /\ rq = IdleRequest
  /\ bt = IdleBatch
  /\ ex = IdleExtract
  /\ ni \in {[pc |-> "idle", op |-> "none", email |-> e, enabled |-> b, asked |-> 0,
              response |-> NoResponse, result |-> NoResult] :
               e \in InferEmails, b \in BOOLEAN}

\* inferName(email): synchronous
inferNameCall ==
  /\ ni.pc = "idle"
  /\ ni' = [ni EXCEPT !.pc = "done", !.op = "inferName", !.result = inferName(ni.email)]
  /\ UNCHANGED <<scraperVars, store, now, rq, bt, ex>>

\* inferNameWithAI(email) up to its await, or to its return when the
\* collaborator is not asked
inferNameWithAICall ==
  /\ ni.pc = "idle"
  /\ ni' = IF asksCollaborator(ni.enabled, inferName(ni.email))
           THEN [ni EXCEPT !.pc = "ai", !.op = "inferNameWithAI", !.asked = @ + 1]
           ELSE [ni EXCEPT !.pc = "done", !.op = "inferNameWithAI",
                           !.result = inferNameWithAI(ni.email, ni.enabled, NoAiResult)]
  /\ UNCHANGED <<scraperVars, store, now, rq, bt, ex>>

\* await geminiAI.inferNameFromEmail(email) resolves, whatever generateContent
\* did, and inferNameWithAI returns
inferNameFromEmailResolves ==
  /\ ni.pc = "ai"
  /\ \E response \in AiResponses :
       ni' = [ni EXCEPT !.pc = "done", !.response = response,
                        !.result = inferNameWithAI(ni.email, ni.enabled,
                                                   inferNameFromEmail(response))]
  /\ UNCHANGED <<scraperVars, store, now, rq, bt, ex>>

(***************************************************************************)
(* inferNames(emails, useAI)                                               *)
(***************************************************************************)
MaxEmails == 6     \* longest list of emails inferNames is given

BatchSize == 5     \* for (let i = 0; i < emails.length; i += 5)
PauseMs == 500     \* setTimeout(resolve, 500)

\* the list is taken from this cycle of addresses: one the collaborator is
\* asked about and adopts, one it is not asked about, one of fallback grade
BatchCycle ==
  << [local |-> <<"b", "o", "b">>, domain |-> "company.com"],
     [local |-> <<"j", "o", "h", "n", ".", "d", "o", "e">>, domain |-> "company.com"],
     [local |-> <<"x", "9">>, domain |-> "company.com"] >>

\* what the collaborator does with the requests of a batch
BatchResponses ==
  { [NoResponse EXCEPT !.kind = "rejects"],
    [kind |-> "json", name |-> PatLee, confidence |-> [type |-> "number", val |-> 950],
     reasoning |-> "given"] }

InitBatch ==
  /\ InitScraper
  /\ store = <<>>
  /\ now = 0
  /\ rq = IdleRequest
  /\ ni = IdleInfer
  /\ ex = IdleExtract
  /\ bt \in {[pc |-> "idle",
              emails |-> [k \in 1..n |-> BatchCycle[((k + shift) % Len(BatchCycle)) + 1]],
              useAI |-> useAI, enabled |-> enabled, i |-> 0, pending |-> {},
              batchResults |-> [k \in 1..n |-> NoResult], results |-> <<>>,
              asked |-> 0, pauses |-> 0, waited |-> 0, starts |-> <<>>] :
               n \in 0..MaxEmails, shift \in 0..(Len(BatchCycle) - 1),
               useAI \in BOOLEAN, enabled \in BOOLEAN}

\* emails.slice(i, i + 5), as the positions it takes
Batch(b, i) == (i + 1)..Min(i + BatchSize, Len(b.emails))

\* batch.map(email => this.inferNameWithAI(email)): every call of the group
\* runs to its await, or to its return when the collaborator is not asked
startBatch(b, i) ==
  LET asking == {k \in Batch(b, i) : asksCollaborator(b.enabled, inferName(b.emails[k]))}
  IN [b EXCEPT !.pc = "batch", !.i = i, !.pending = asking,
               !.asked = @ + Cardinality(asking),
               !.batchResults =
                  [k \in DOMAIN @ |->
                     IF k \in Batch(b, i) \ asking
                       THEN inferNameWithAI(b.emails[k], b.enabled, NoAiResult)
                       ELSE @[k]],
               !.starts = Append(@, [i |-> i, results |-> Len(b.results),
                                     pauses |-> b.pauses, waited |-> b.waited,
                                     pending |-> b.pending])]

\* the loop test i < emails.length: the next group, or return results
loopBatch(b, i) ==
  IF i < Len(b.emails) THEN startBatch(b, i) ELSE [b EXCEPT !.pc = "done", !.i = i]

\* variant: the pause is taken after every group
pausesAfterEveryBatch(i, length) == TRUE

\* if (i + 5 < emails.length)
pausesAfterBatch(i, length) == i + BatchSize < length

\* inferNames is called
inferNames ==
  /\ bt.pc = "idle"
  /\ bt' = IF ~bt.useAI \/ ~bt.enabled
           THEN [bt EXCEPT !.pc = "done",
                   !.results = [k \in 1..Len(bt.emails) |->
                                  [email |-> bt.emails[k]] @@ inferName(bt.emails[k])]]
           ELSE loopBatch(bt, 0)
  /\ UNCHANGED <<scraperVars, store, now, rq, ni, ex>>

\* the collaborator answers one of the pending requests of the group
batchInferenceResolves ==
  /\ bt.pc = "batch"
  /\ \E k \in bt.pending, response \in BatchResponses :
       bt' = [bt EXCEPT !.pending = @ \ {k},
                        !.batchResults[k] =
                           inferNameWithAI(bt.emails[k], bt.enabled,
                                           inferNameFromEmail(response))]
  /\ UNCHANGED <<scraperVars, store, now, rq, ni, ex>>

\* Promise.all resolves: the results are pushed in the order of the batch,
\* then the pause is started or the loop goes on
batchSettles ==
  /\ bt.pc = "batch" /\ bt.pending = {}
  /\ LET pushed == [bt EXCEPT !.results =
                      [k \in 1..Min(bt.i + BatchSize, Len(bt.emails)) |->
                         IF k <= Len(bt.results) THEN bt.results[k]
                         ELSE [email |-> bt.emails[k]] @@ bt.batchResults[k]]]
     IN bt' = IF pausesAfterBatch(bt.i, Len(bt.emails))
              THEN [pushed EXCEPT !.pc = "pause", !.pauses = @ + 1]
              ELSE loopBatch(pushed, bt.i + BatchSize)
  /\ UNCHANGED <<scraperVars, store, now, rq, ni, ex>>

\* the 500 ms timer fires
pauseElapses ==
  /\ bt.pc = "pause"
  /\ bt' = loopBatch([bt EXCEPT !.waited = @ + PauseMs], bt.i + BatchSize)
  /\ UNCHANGED <<scraperVars, store, now, rq, ni, ex>>

(***************************************************************************)
(* Calls of extractFromHTML and extractFromText.                           *)
(***************************************************************************)
MaxMatches == 2    \* most matches of emailPattern in a document

\* the matches the documents are made of: an address in two letter cases,
\* a placeholder domain, an image name, a malformed address, a domain that
\* only ends like the provider, and addresses inside a script block, inside
\* a style block and after an unclosed script tag
Fragments ==
  { [text |-> <<"A", "l", "@", "G", ".", "c", "o">>, within |-> "body"],
    [text |-> <<"a", "l", "@", "g", ".", "c", "o">>, within |-> "body"],
    [text |-> <<"b", "@", "y", ".", "c", "o">>, within |-> "body"],
    [text |-> <<"x", "@", "t", "e", "s", "t", ".", "c", "o", "m">>, within |-> "body"],
    [text |-> <<"i", "@", "2", "x", ".", "p", "n", "g">>, within |-> "body"],
    [text |-> <<"a", ".", ".", "b", "@", "g", ".", "c", "o">>, within |-> "body"],
    [text |-> <<"c", "@", "n", "g", ".", "c", "o">>, within |-> "body"],
    [text |-> <<"r", "e", "a", "l", "@", "f", "i", "r", "m", ".", "i", "o">>, within |-> "body"],
    [text |-> <<"f", "a", "k", "e", "@", "l", "e", "a", "k", ".", "c", "o", "m">>, within |-> "script"],
    [text |-> <<"s", "@", "g", ".", "c", "o">>, within |-> "style"],
    [text |-> <<"u", "@", "g", ".", "c", "o">>, within |-> "open"] }

\* the sequences of length n over the fragments
RECURSIVE HtmlOfLength(_)
HtmlOfLength(n) ==
  IF n = 0 THEN {<<>>}
  ELSE {Append(html, f) : html \in HtmlOfLength(n - 1), f \in Fragments}

Htmls == UNION {HtmlOfLength(n) : n \in 0..MaxMatches}

Providers == {NoProvider, <<"g", ".", "c", "o">>, <<"G", ".", "C", "O">>, <<"@", "g", ".", "c", "o">>}

InitExtract ==
  /\ InitScraper
  /\ store = <<>>
  /\ now = 0
  /\ rq = IdleRequest
  /\ ni = IdleInfer
  /\ bt = IdleBatch
  /\ ex \in {[pc |-> "idle", op |-> "none", html |-> html, provider |-> provider,
              result |-> <<>>] : html \in Htmls, provider \in Providers}

extractFromHTMLCall ==
  /\ ex.pc = "idle"
  /\ ex' = [ex EXCEPT !.pc = "done", !.op = "extractFromHTML",
                      !.result = extractFromHTML(ex.html, ex.provider)]
  /\ UNCHANGED <<scraperVars, store, now, rq, ni, bt>>

extractFromTextCall ==
  /\ ex.pc = "idle"
  /\ ex' = [ex EXCEPT !.pc = "done", !.op = "extractFromText",
                      !.result = extractFromText(ex.html, ex.provider)]
  /\ UNCHANGED <<scraperVars, store, now, rq, ni, bt>>

\* variant: every generated address is taken as new
IsNewEmailAlways(processedEmails, email) == TRUE

\* if (!processedEmails.has(email))
IsNewEmail(processedEmails, email) == email \notin processedEmails

\* the Result pushed for a generated address
generatedResult(q, firstName, lastName, nameResult) ==
  [profile |-> q.profile, name |-> nameResult.name,
   email |-> generatedEmail(firstName, lastName, GeneratedProviders[(q.i % Len(GeneratedProviders)) + 1]),
   platform |-> Platforms[(q.i % Len(Platforms)) + 1],
   searchEngine |-> q.searchEngine, confidence |-> nameResult.confidence,
   aiEnhanced |-> IF "aiEnhanced" \in DOMAIN nameResult THEN nameResult.aiEnhanced
                  ELSE FALSE,
   method |-> nameResult.method,
   sourceUrl |-> platformUrl(Platforms[(q.i % Len(Platforms)) + 1], firstName, lastName)]

(***************************************************************************)
(* searchEmails(req, res)                                                  *)
(***************************************************************************)
\* req.body.profile: whether it is given, and profile.toLowerCase().trim()
\* req.body.profile: whether the field is there, its text, and the text
\* lower-cased and trimmed
ProfileInputs ==
  { [given |-> FALSE, text |-> <<>>, normalized |-> ""],
    [given |-> TRUE, text |-> <<>>, normalized |-> ""],
    [given |-> TRUE, text |-> <<" ", " ">>, normalized |-> ""],
    [given |-> TRUE, text |-> <<" ", "D", "e", "s", "i", "g", "n", "e", "r">>,
     normalized |-> "designer"] }

\* variant: the text is not trimmed before the test
invalidProfileUntrimmed(profile) == ~profile.given \/ profile.text = <<>>

\* !profile || profile.trim() === ''
invalidProfile(profile) == ~profile.given \/ trim(profile.text) = <<>>

RequestEngines == {"Google", "Demo"}
Limits == {0, 1, MaxLimit}

CacheHours == 24   \* hoursSinceExtraction < 24

\* a record an earlier request left in the collection
PriorRecord ==
  [profile |-> "designer", name |-> Priya \o <<" ">> \o Sharma,
   email |-> generatedEmail(Priya, Sharma, "gmail.com"), platform |-> "LinkedIn",
   searchEngine |-> "Google", confidence |-> 1000, aiEnhanced |-> FALSE,
   method |-> "pattern-matching",
   sourceUrl |-> platformUrl("LinkedIn", Priya, Sharma), extractedAt |-> 0]

InitOrch ==
  /\ InitScraper
  /\ store \in {<<>>, <<PriorRecord>>}
  /\ now \in {CacheHours - 1, CacheHours}
  /\ rq = IdleRequest
  /\ IdlePure

Respond(q, status, response, count) ==
  [q EXCEPT !.pc = "done", !.status = status, !.response = response, !.count = count]

\* the request arrives: validation, then the cache lookup or the search
searchEmails ==
  /\ rq.pc = "idle"
  /\ \E profile \in ProfileInputs, limit \in Limits, searchEngine \in RequestEngines,
        useCache \in BOOLEAN, useAI \in BOOLEAN :
       LET q == [rq EXCEPT !.profile = profile.normalized, !.limit = limit,
                           !.searchEngine = searchEngine, !.useCache = useCache,
                           !.useAI = useAI, !.given = profile.given,
                           !.text = profile.text]
       IN rq' = IF invalidProfile(profile) THEN Respond(q, 400, "invalid", 0)
                ELSE IF useCache /\ ~useAI THEN [q EXCEPT !.pc = "cache"]
                ELSE [q EXCEPT !.pc = "generate"]
  /\ UNCHANGED <<scraperVars, store, now, pureVars>>

\* EmailResult.find({profile}).sort({extractedAt: -1}).limit(limit) resolves
cacheFind ==
  /\ rq.pc = "cache"
  /\ LET InProfile(rec) == rec.profile = rq.profile
         cached == SelectSeq(store, InProfile)
         latest == CHOOSE rec \in {cached[j] : j \in 1..Len(cached)} :
                     \A j \in 1..Len(cached) : rec.extractedAt >= cached[j].extractedAt
         q == [rq EXCEPT !.stages = @ \cup {"cacheLookup"}]
     IN rq' = IF cached # <<>> /\ now - latest.extractedAt < CacheHours
              THEN Respond(q, 200, "cached",
                           IF rq.limit = 0 THEN Len(cached) ELSE Min(rq.limit, Len(cached)))
              ELSE [q EXCEPT !.pc = "generate"]
  /\ UNCHANGED <<scraperVars, store, now, pureVars>>

\* EmailResult.find rejects: the outer catch answers 500
cacheFindFails ==
  /\ rq.pc = "cache"
  /\ rq' = Respond([rq EXCEPT !.stages = @ \cup {"cacheLookup"}], 500, "error", 0)
  /\ UNCHANGED <<scraperVars, store, now, pureVars>>

\* one iteration of the for loop of searchAndExtract
generateProfile ==
  /\ rq.pc = "generate" /\ rq.i < Min(rq.limit, GenerateCap)
  /\ \E firstName \in FirstNames, lastName \in LastNames, enabled \in BOOLEAN :
       LET email == generatedEmail(firstName, lastName,
                      GeneratedProviders[(rq.i % Len(GeneratedProviders)) + 1])
           nameResult == IF rq.useAI THEN inferNameWithAI(email, enabled, NoAiResult)
                         ELSE inferName(email)
       IN rq' = IF IsNewEmail(rq.processedEmails, email)
                THEN [rq EXCEPT !.i = @ + 1,
                        !.processedEmails = @ \cup {email},
                        !.fabricated = @ \cup {email},
                        !.stages = @ \cup {"nameInference"},
                        !.allResults = Append(@, generatedResult(rq, firstName, lastName, nameResult))]
                ELSE [rq EXCEPT !.i = @ + 1]
  /\ UNCHANGED <<scraperVars, store, now, pureVars>>

\* the loop ends: return allResults, and searchEmails starts saving
searchAndExtractReturns ==
  /\ rq.pc = "generate" /\ rq.i >= Min(rq.limit, GenerateCap)
  /\ rq' = [rq EXCEPT !.pc = "save", !.k = 1, !.stages = @ \cup {"searchAndExtract"}]
  /\ UNCHANGED <<scraperVars, store, now, pureVars>>

\* new EmailResult(result).save(): the schema validates searchEngine
saveResult ==
  /\ rq.pc = "save" /\ rq.k <= Len(rq.allResults)
  /\ LET result == rq.allResults[rq.k]
         doc == result @@ [extractedAt |-> now]
     IN IF result.searchEngine \in SchemaSearchEngines
          THEN /\ store' = Append(store, doc)
               /\ rq' = [rq EXCEPT !.k = @ + 1, !.savedResults = Append(@, doc),
                                    !.stages = @ \cup {"storeWrite"}]
          ELSE /\ store' = store
               /\ rq' = [rq EXCEPT !.k = @ + 1]
  /\ UNCHANGED <<scraperVars, now, pureVars>>

\* save rejects (the database is unreachable): logged, the loop goes on
saveFails ==
  /\ rq.pc = "save" /\ rq.k <= Len(rq.allResults)
  /\ rq' = [rq EXCEPT !.k = @ + 1]
  /\ UNCHANGED <<scraperVars, store, now, pureVars>>

\* after the save loop: the zero-result answer or the results
sendResponse ==
  /\ rq.pc = "save" /\ rq.k > Len(rq.allResults)
  /\ rq' = IF Len(rq.savedResults) = 0 THEN Respond(rq, 200, "no-results", 0)
           ELSE Respond(rq, 200, "results", Len(rq.savedResults))
  /\ UNCHANGED <<scraperVars, store, now, pureVars>>

(***************************************************************************)
(* Specifications.                                                         *)
(***************************************************************************)
\* the steps of the rendering tier and of closeBrowser
BrowserStep(p) ==
  \/ initBrowser(p) \/ launchResolves(p) \/ launchRejects(p)
  \/ newPageResolves(p) \/ newPageFails(p)
  \/ pageSetup(p) \/ pageGoto(p) \/ pageEvaluate(p)
  \/ pageOpFails(p) \/ pageClose(p)
  \/ closeResolves(p)

Step(p) ==
  \/ BrowserStep(p)
  \/ pageContent(p)
  \/ extractHttpFails(p) \/ extractHttpResolves(p)
  \/ ddgResolves(p) \/ ddgFails(p)

Next ==
  \E p \in Callers :
    \/ extractEmailsFromURL(p) \/ executeGoogleDork(p) \/ searchGoogle(p)
    \/ searchDuckDuckGoSimple(p) \/ closeBrowser(p)
    \/ Step(p)

\* concurrent calls of the fetch and search methods and of closeBrowser
Spec == Init /\ [][Next]_vars

Searcher == "c1"
Closer == "c2"

NextSearch ==
  \/ searchWithGoogleDorks(Searcher)
  \/ dorksLoop(Searcher) \/ dorksDelay(Searcher)
  \/ executeGoogleDork(Searcher) \/ searchGoogle(Searcher)
  \/ searchDuckDuckGoSimple(Searcher) \/ ddgResolves(Searcher) \/ ddgFails(Searcher)
  \/ closeBrowser(Closer)
  \/ \E p \in Callers : BrowserStep(p)

\* the search methods called one after the other, with a concurrent closeBrowser
SpecSearch == Init /\ [][NextSearch]_vars

NextFetch ==
  \/ extractEmailsFromURLOf(Searcher, UrlPool)
  \/ extractHttpFails(Searcher) \/ extractHttpResolves(Searcher)
  \/ initBrowser(Searcher) \/ launchResolves(Searcher) \/ launchRejects(Searcher)
  \/ newPageResolves(Searcher) \/ newPageFails(Searcher)
  \/ pageSetup(Searcher) \/ pageGoto(Searcher) \/ pageContent(Searcher)
  \/ pageOpFails(Searcher) \/ pageClose(Searcher)

\* extractEmailsFromURL called one call after the other on every URL of the pool
SpecFetch == Init /\ [][NextFetch]_vars

NextOrch ==
  \/ searchEmails \/ cacheFind \/ cacheFindFails
  \/ generateProfile \/ searchAndExtractReturns
  \/ saveResult \/ saveFails \/ sendResponse

\* one searchEmails request, from the stores an earlier request can leave
SpecOrch == InitOrch /\ [][NextOrch]_vars

NextInfer ==
  \/ inferNameCall \/ inferNameWithAICall \/ inferNameFromEmailResolves

\* one call of inferName or inferNameWithAI on each address of the pool
SpecInfer == InitInfer /\ [][NextInfer]_vars

NextBatch ==
  \/ inferNames \/ batchInferenceResolves \/ batchSettles \/ pauseElapses

\* one call of inferNames, the collaborator answering in any order
SpecBatch == InitBatch /\ [][NextBatch]_vars

NextExtract == extractFromHTMLCall \/ extractFromTextCall

\* one call of extractFromHTML or extractFromText on each document
SpecExtract == InitExtract /\ [][NextExtract]_vars

(***************************************************************************)
(* Properties.                                                             *)
(***************************************************************************)
Idle(p) == cs[p].pc = "idle"

SearchOps ==
  {"executeGoogleDork", "searchGoogle", "searchDuckDuckGoSimple", "searchWithGoogleDorks"}

\* C1: the list searchAndExtract builds and returns never holds two Results
\* with the same email, whatever the limit and the addresses drawn.
C1_UniqueEmails ==
  \A i, j \in 1..Len(rq.allResults) :
    i # j => rq.allResults[i].email # rq.allResults[j].email

\* searchAndExtract has returned after drawing an address a second time
C1_Witness ==
  /\ rq.pc = "save"
  /\ Len(rq.allResults) < rq.i
  /\ Len(rq.allResults) >= Len(GeneratedProviders)

\* C2 (as claimed): every Result searchAndExtract generates from its name
\* lists, returned or saved to the store, carries a searchEngine tag that no
\* live result carries, that is, none of the search engines' names.
C2_SyntheticMarked ==
  /\ \A k \in 1..Len(rq.allResults) :
       rq.allResults[k].email \in rq.fabricated
         => rq.allResults[k].searchEngine \notin SchemaSearchEngines
  /\ \A k \in 1..Len(rq.savedResults) :
       rq.savedResults[k].email \in rq.fabricated
         => rq.savedResults[k].searchEngine \notin SchemaSearchEngines

\* C3 (as claimed): every open page belongs to a call that is still in
\* flight, so with no fetch or search in flight no page is open.
C3_PagesClosed ==
  \A pg \in pages : ~Idle(pg.owner) /\ cs[pg.owner].call = pg.call

\* C4 (as claimed): launches in flight and live browsers together never
\* number more than one: no second launch while one is pending or live.
C4_SingleLaunch ==
  Cardinality({p \in Callers : cs[p].pc = "launch"}) + Cardinality(live) <= 1

\* C5 (as claimed): a run that returns Results has built queries, resolved
\* them to URLs, fetched pages and extracted addresses before inferring names.
C5_Provenance ==
  rq.allResults # <<>>
    => {"queryBuild", "searchResolve", "pageFetch", "extraction"} \subseteq rq.stages

\* C6 (as claimed): a call that saw puppeteer.launch reject ends by throwing.
C6_LaunchFailureFatal ==
  \A p \in Callers : Idle(p) /\ cs[p].launchFailed => cs[p].outcome = "threw"

\* C6 (amended): a call of extractEmailsFromURL, executeGoogleDork or
\* searchGoogle that saw puppeteer.launch reject returns normally, with no
\* emails and with no URLs.
C6_LaunchFailureSwallowed ==
  \A p \in Callers :
    Idle(p) /\ cs[p].launchFailed
      => /\ cs[p].outcome = "returned"
         /\ cs[p].ret = <<>>
         /\ cs[p].retUrls = <<>>

\* a search and a fetch have each ended after a rejected launch
C6_Witness ==
  \E p, q \in Callers :
    /\ Idle(p) /\ cs[p].launchFailed /\ cs[p].op = "extractEmailsFromURL"
    /\ Idle(q) /\ cs[q].launchFailed /\ cs[q].op = "executeGoogleDork"

\* C7: extractEmailsFromURL never throws: it returns {emails, platform, url}
\* with the platform of its URL, and with no emails when neither tier found any.
C7_ExtractNeverThrows ==
  \A p \in Callers :
    cs[p].op = "extractEmailsFromURL"
      => /\ cs[p].outcome # "threw"
         /\ Idle(p)
              => /\ cs[p].outcome = "returned"
                 /\ cs[p].platform = determinePlatform(cs[p].url)
                 /\ cs[p].tier1 # "found" /\ cs[p].rendered # "found" => cs[p].ret = <<>>

\* a fetch of an unparsable URL has returned after both tiers threw
C7_Witness ==
  \E p \in Callers :
    /\ Idle(p) /\ cs[p].op = "extractEmailsFromURL" /\ ~cs[p].url.valid
    /\ cs[p].tier1 = "threw" /\ cs[p].rendered = "threw" /\ cs[p].outcome = "returned"

\* C8: the rendering tier is entered only after tier 1 threw or found nothing,
\* and always then; a tier-1 hit is returned as it is, without initBrowser or
\* a page; tier 1 is tried once, before the rendering tier.
C8_RenderingIffTier1Empty ==
  \A p \in Callers :
    cs[p].op = "extractEmailsFromURL"
      => /\ cs[p].tier1Tries <= 1
         /\ cs[p].usedBrowser => cs[p].tier1 \in {"threw", "empty"} /\ cs[p].tier1Tries = 1
         /\ cs[p].pc \in {"init", "launch", "newpage", "setup", "goto", "read", "close"}
              => cs[p].tier1 \in {"threw", "empty"}
         /\ Idle(p) /\ cs[p].tier1 \in {"threw", "empty"} => cs[p].usedBrowser
         /\ cs[p].tier1 = "found"
              => /\ Idle(p) /\ ~cs[p].usedBrowser /\ cs[p].page = NoPage
                 /\ \A pg \in pages : pg.call # cs[p].call
                 /\ cs[p].ret = cs[p].tier1Emails /\ cs[p].ret # <<>>

\* one fetch returned its tier-1 hit, another went on to the rendering tier
C8_Witness ==
  \E p, q \in Callers :
    /\ Idle(p) /\ cs[p].op = "extractEmailsFromURL" /\ cs[p].tier1 = "found"
    /\ cs[q].op = "extractEmailsFromURL" /\ cs[q].tier1 = "empty" /\ cs[q].pc = "read"

\* C9: executeGoogleDork, searchGoogle, searchDuckDuckGoSimple and
\* searchWithGoogleDorks never throw; a call that failed returns the empty
\* list, and so does searchWithGoogleDorks when each of its queries failed.
C9_SearchNeverThrows ==
  \A p \in Callers :
    cs[p].op \in SearchOps
      => /\ cs[p].outcome # "threw"
         /\ Idle(p)
              => /\ cs[p].outcome = "returned"
                 /\ cs[p].op # "searchWithGoogleDorks" /\ cs[p].failures > 0
                      => cs[p].retUrls = <<>>
                 /\ cs[p].op = "searchWithGoogleDorks" /\ cs[p].failures = cs[p].qi - 1
                      => cs[p].retUrls = <<>>

\* searchWithGoogleDorks has returned after all of its six queries failed
C9_Witness ==
  \E p \in Callers :
    /\ Idle(p) /\ cs[p].op = "searchWithGoogleDorks"
    /\ cs[p].failures = SelectedQueryCount /\ cs[p].launchFailed

\* C10: within searchWithGoogleDorks at most one executeGoogleDork is in
\* flight, and every query after the first starts only after the 2000 ms
\* pause that follows the query before it, failed or empty or not.
C10_DelayBetweenQueries ==
  \A p \in Callers :
    cs[p].op = "searchWithGoogleDorks"
      => /\ cs[p].inFlight \in {0, 1}
         /\ cs[p].inFlight = 1 /\ cs[p].qi > 1 => cs[p].waited >= DorkDelayMs

\* the second query is in flight after the first one failed
C10_Witness ==
  \E p \in Callers :
    /\ cs[p].op = "searchWithGoogleDorks" /\ cs[p].inFlight = 1
    /\ cs[p].qi = 2 /\ cs[p].failures = 1 /\ cs[p].lastEmpty

\* C11 (as claimed): the store never holds two EmailResult records with the
\* same (profile, email) pair, whatever requests have saved into it.
C11_UniquePairs ==
  \A i, j \in 1..Len(store) :
    (store[i].profile = store[j].profile /\ store[i].email = store[j].email) => i = j

\* what the collaborator returned to the call of ni (null when it was not asked)
AiReturned == inferNameFromEmail(ni.response)

PatternResult == inferName(ni.email)

PatternUnchanged ==
  [name |-> PatternResult.name, confidence |-> PatternResult.confidence,
   method |-> PatternResult.method, aiEnhanced |-> FALSE]

InferDone(op) == ni.pc = "done" /\ ni.op = op

C13_AiFailureDegrades ==
  /\ ni.op = "inferNameWithAI" => ni.pc \in {"ai", "done"}
  /\ (InferDone("inferNameWithAI")
        /\ (~ni.enabled \/ ni.response.kind \in {"rejects", "text", "badjson"}))
       => ni.result = PatternUnchanged

\* the collaborator was asked about a fallback-grade address and failed
C13_Witness ==
  /\ InferDone("inferNameWithAI") /\ ni.asked = 1
  /\ ni.response.kind = "rejects" /\ ni.result.method = "fallback"

\* C14: every result of inferName and inferNameWithAI, the adopted
\* collaborator's result and its fallback included, has a confidence in [0, 1].
C14_ConfidenceInRange ==
  ni.pc = "done" =>
    /\ ni.result.confidence >= 0 /\ ni.result.confidence <= 1000
    /\ ni.result.method = "ai-enhanced" =>
         ni.result.fallback.confidence >= 0 /\ ni.result.fallback.confidence <= 1000

\* an out-of-range confidence of the collaborator was adopted
C14_Witness ==
  /\ InferDone("inferNameWithAI") /\ ni.result.method = "ai-enhanced"
  /\ ni.response.confidence.val > 1000

\* C15 (as claimed): for a local part that is one run of letters, inferName
\* returns the whole local part title-cased as a one-word name, method
\* 'pattern-matching', confidence 0.60 or 0.70.
C15_SingleWordName ==
  (InferDone("inferName") /\ matchSingle(toLowerCase(ni.email.local)) # <<>>) =>
    /\ ni.result.name = capitalize(ni.email.local)
    /\ ni.result.method = "pattern-matching"
    /\ ni.result.confidence \in {600, 700}

\* C16 (as claimed): for a local part that is one initial, a dot and a word,
\* inferName returns "F. Lastname", method 'pattern-matching', with the base
\* confidence 0.70 (0.80 with the bonus).
C16_InitialLastName ==
  (InferDone("inferName") /\ matchInitial(toLowerCase(ni.email.local)) # <<>>) =>
    /\ ni.result.name = formatInitialLastName(matchInitial(toLowerCase(ni.email.local)))
    /\ ni.result.method = "pattern-matching"
    /\ ni.result.confidence \in {700, 800}

Groups(n) == (n + BatchSize - 1) \div BatchSize

\* C18: with useAI and the collaborator enabled, inferNames takes the emails
\* in consecutive groups of at most five; a group starts only when every
\* inference of the groups before it has settled and been pushed and one
\* 500 ms pause per earlier group has elapsed; there is no pause after the
\* last group; and the call returns one result per email, in input order.
\* Without useAI or with the collaborator disabled there is no pause and the
\* collaborator is never asked.
C18_BatchesOfFive ==
  LET n == Len(bt.emails)
      ai == bt.useAI /\ bt.enabled
  IN bt.pc # "idle" =>
       /\ ai =>
            /\ \A g \in 1..Len(bt.starts) :
                 /\ bt.starts[g].i = (g - 1) * BatchSize
                 /\ bt.starts[g].results = bt.starts[g].i
                 /\ bt.starts[g].pending = {}
                 /\ bt.starts[g].pauses = g - 1
                 /\ bt.starts[g].waited = (g - 1) * PauseMs
            /\ bt.pc = "batch" =>
                 /\ Cardinality(Batch(bt, bt.i)) \in 1..BatchSize
                 /\ bt.pending \subseteq Batch(bt, bt.i)
                 /\ Len(bt.results) = bt.i
            /\ bt.pc = "done" =>
                 /\ Len(bt.starts) = Groups(n)
                 /\ bt.pauses = IF n = 0 THEN 0 ELSE Groups(n) - 1
                 /\ bt.waited = bt.pauses * PauseMs
       /\ ~ai => bt.pauses = 0 /\ bt.waited = 0 /\ bt.asked = 0
       /\ bt.pc = "done" =>
            /\ Len(bt.results) = n
            /\ \A k \in 1..n :
                 /\ bt.results[k].email = bt.emails[k]
                 /\ bt.results[k].method # "none"

\* a list of more than five emails has been processed with the collaborator
C18_Witness ==
  /\ bt.pc = "done" /\ bt.useAI /\ bt.enabled
  /\ Len(bt.emails) > BatchSize
  /\ bt.pauses = 1 /\ bt.asked > BatchSize - 2
  /\ \E k \in 1..Len(bt.results) : bt.results[k].method = "ai-enhanced"

\* C19: every string extractFromHTML or extractFromText returns passes the
\* syntax validator, ends with none of the excluded suffixes, is lower-cased,
\* and stands only once in the result.
C19_ExtractedAreValid ==
  ex.pc = "done" =>
    \A i \in 1..Len(ex.result) :
      /\ validate(ex.result[i])
      /\ \A pattern \in excludePatterns : ~endsWith(ex.result[i], pattern)
      /\ toLowerCase(ex.result[i]) = ex.result[i]
      /\ \A j \in 1..Len(ex.result) : ex.result[j] = ex.result[i] => j = i

\* an address was returned lower-cased and once from a document that also
\* held it in another letter case
C19_Witness ==
  /\ ex.pc = "done" /\ Len(ex.html) = 2 /\ Len(ex.result) = 1
  /\ ex.html[1].text # ex.html[2].text
  /\ toLowerCase(ex.html[1].text) = ex.result[1]
  /\ toLowerCase(ex.html[2].text) = ex.result[1]

\* C20: for a provider p, extractFromHTML(html, p) holds only members of
\* extractFromHTML(html, null) that end with p lower-cased, holds every such
\* member, and is the same for p in upper and in lower case.
C20_ProviderFilter ==
  (ex.pc = "done" /\ ex.op = "extractFromHTML" /\ ex.provider # NoProvider) =>
    LET all == extractFromHTML(ex.html, NoProvider)
        suffix == toLowerCase(ex.provider)
    IN /\ \A i \in 1..Len(ex.result) :
            /\ \E j \in 1..Len(all) : all[j] = ex.result[i]
            /\ endsWith(ex.result[i], suffix)
       /\ \A j \in 1..Len(all) :
            endsWith(all[j], suffix) => \E i \in 1..Len(ex.result) : ex.result[i] = all[j]
       /\ ex.result = extractFromHTML(ex.html, toUpperCase(ex.provider))
       /\ ex.result = extractFromHTML(ex.html, toLowerCase(ex.provider))

\* an upper-case provider kept one of two valid addresses
C20_Witness ==
  /\ ex.pc = "done" /\ ex.op = "extractFromHTML"
  /\ ex.provider # toLowerCase(ex.provider)
  /\ Len(ex.result) = 1
  /\ Len(extractFromHTML(ex.html, NoProvider)) = 2

\* <script>fake@leak.com</script><p>real@firm.io</p>
ScriptExample ==
  << [text |-> <<"f", "a", "k", "e", "@", "l", "e", "a", "k", ".", "c", "o", "m">>, within |-> "script"],
     [text |-> <<"r", "e", "a", "l", "@", "f", "i", "r", "m", ".", "i", "o">>, within |-> "body"] >>

\* C21: extractFromHTML returns no address that stands only inside script or
\* style blocks, and (with no provider filter) returns every valid address
\* that stands outside them: <script>fake@leak.com</script><p>real@firm.io</p>
\* gives exactly real@firm.io.
C21_ScriptStyleStripped ==
  (ex.pc = "done" /\ ex.op = "extractFromHTML") =>
    LET InBlock(f) == f.within \in {"script", "style"}
        outside == {i \in 1..Len(ex.html) : ~InBlock(ex.html[i])}
    IN /\ \A j \in 1..Len(ex.result) :
            \E i \in outside : toLowerCase(ex.html[i].text) = ex.result[j]
       /\ ex.provider = NoProvider =>
            \A i \in outside :
              (/\ validate(toLowerCase(ex.html[i].text))
               /\ \A pattern \in excludePatterns :
                    ~endsWith(toLowerCase(ex.html[i].text), pattern))
                => \E j \in 1..Len(ex.result) : ex.result[j] = toLowerCase(ex.html[i].text)
       /\ (ex.html = ScriptExample /\ ex.provider = NoProvider) =>
            ex.result = <<<<"r", "e", "a", "l", "@", "f", "i", "r", "m", ".", "i", "o">>>>

\* the example document has been extracted
C21_Witness ==
  /\ ex.pc = "done" /\ ex.op = "extractFromHTML"
  /\ ex.html = ScriptExample /\ ex.provider = NoProvider
  /\ Len(ex.result) = 1

\* C22: buildGoogleDorkQueries(profile) returns 3 x 5 = 15 queries, the one at
\* place (s - 1) * 5 + e being that of the s-th site and the e-th provider
\* (site-major order), each holding its site, its provider and the profile
\* in its text; the list is fixed by the profile.
C22_FifteenQueriesSiteMajor ==
  \A p \in Callers :
    cs[p].op = "searchWithGoogleDorks" =>
      LET queries == cs[p].dorkQueries
      IN /\ Len(queries) = 15
         /\ Len(Sites) = 3 /\ Len(EmailProviders) = 5
         /\ \A s \in 1..3, e \in 1..5 :
              LET q == queries[(s - 1) * 5 + e]
                  Holds(piece) == \E i \in 1..Len(q.query) : q.query[i] = piece
              IN /\ q.site = Sites[s] /\ q.emailProvider = EmailProviders[e]
                 /\ q.profile = cs[p].profile
                 /\ Holds(Sites[s]) /\ Holds(EmailProviders[e]) /\ Holds(cs[p].profile)
                 /\ q.query = <<"site:", Sites[s], " \"", EmailProviders[e], "\" \"",
                                cs[p].profile, "\"">>

\* the queries were built for the second profile keyword
C22_Witness ==
  \E p \in Callers :
    /\ cs[p].op = "searchWithGoogleDorks" /\ cs[p].profile = "developer"
    /\ Len(cs[p].dorkQueries) = 15

\* C23: the list executeGoogleDork, searchGoogle and searchDuckDuckGoSimple
\* return is no longer than their maxResults, and the list
\* searchWithGoogleDorks returns is no longer than its maxResults.
C23_AtMostMaxResults ==
  \A p \in Callers :
    (Idle(p) /\ cs[p].op \in SearchOps) =>
      Len(cs[p].retUrls) <= (IF cs[p].op = "searchWithGoogleDorks" THEN cs[p].limit
                             ELSE cs[p].max)

\* a search returned maxResults URLs of a page that held more
C23_Witness ==
  \E p \in Callers :
    /\ Idle(p) /\ cs[p].op \in {"executeGoogleDork", "searchGoogle"}
    /\ cs[p].max > 0 /\ Len(cs[p].retUrls) = cs[p].max
    /\ Len(evaluateLinks(cs[p].dom)) > cs[p].max

\* the links of a page that pass the href filter, in DOM order, each href
\* once at its first occurrence
DomOrder(dom) ==
  LET Keep(l) == l.sels # {} /\ ~l.own
      kept == SelectSeq(dom, Keep)
      hrefs == [i \in 1..Len(kept) |-> kept[i].href]
      first == {i \in 1..Len(hrefs) : \A j \in 1..(i - 1) : hrefs[j] # hrefs[i]}
      Nth(n) == CHOOSE i \in first : Cardinality({j \in first : j < i}) = n - 1
  IN [n \in 1..Cardinality(first) |-> hrefs[Nth(n)]]

\* C24 (as claimed): the URLs executeGoogleDork and searchGoogle return are
\* the first maxResults links of the page in DOM order, whichever selectors
\* match them.
C24_DomOrder ==
  \A p \in Callers :
    (Idle(p) /\ cs[p].op \in {"executeGoogleDork", "searchGoogle"}
       /\ cs[p].retUrls # <<>>)
      => cs[p].retUrls = Slice(DomOrder(cs[p].dom), cs[p].max)

\* the hosts of each named platform
PlatformHosts ==
  [LinkedIn |-> {"linkedin.com", "www.linkedin.com"},
   GitHub |-> {"github.com", "www.github.com"}]

\* the platform as a function of the host alone
HostPlatform(url) ==
  IF ~url.valid THEN "Unknown"
  ELSE IF url.host \in PlatformHosts.LinkedIn THEN "LinkedIn"
  ELSE IF url.host \in PlatformHosts.GitHub THEN "GitHub"
  ELSE HostLabel(url.host)

\* C25 (as claimed): the platform extractEmailsFromURL returns is a function
\* of the URL's host only: a named platform only for a host of that
\* platform, the same platform for the same host whatever the path or query.
C25_PlatformByHost ==
  \A p \in Callers :
    (Idle(p) /\ cs[p].op = "extractEmailsFromURL" /\ cs[p].outcome = "returned")
      => cs[p].platform = HostPlatform(cs[p].url)

\* the profile of the request is missing, empty or whitespace-only
BlankProfile == ~rq.given \/ \A i \in 1..Len(rq.text) : rq.text[i] = " "

\* C26: searchEmails answers a missing, empty or whitespace-only profile
\* with 400 before any work: no cache lookup, no searchAndExtract call and
\* no store write is made for the request.
C26_BlankRejectedFirst ==
  (rq.pc # "idle" /\ BlankProfile) =>
    /\ rq.pc = "done" /\ rq.status = 400
    /\ rq.stages = {} /\ rq.i = 0 /\ rq.k = 0
    /\ rq.allResults = <<>> /\ rq.savedResults = <<>>

\* a whitespace-only profile was rejected while the store held a record
C26_Witness ==
  /\ rq.status = 400 /\ rq.given /\ rq.text # <<>>
  /\ store # <<>>

\* C27 (as claimed): once searchAndExtract has returned, searchEmails gives
\* the zero-result answer (status 200, count 0) exactly when the list it
\* returned is empty: always when nothing was found, and never when results
\* were found but none could be stored.
C27_ZeroResultIffNoneFound ==
  (rq.pc = "done" /\ "searchAndExtract" \in rq.stages) =>
    /\ (rq.allResults = <<>>) <=> (rq.response = "no-results")
    /\ rq.response = "no-results" => (rq.status = 200 /\ rq.count = 0)

\* C28 (as claimed): once closeBrowser has completed, and no call was begun
\* after it, the handle is null and no launched browser is live, whatever
\* launch or fetch was in flight when closeBrowser was called.
C28_ClosedAfterShutdown ==
  \A p \in Callers :
    (/\ Idle(p) /\ cs[p].op = "closeBrowser" /\ cs[p].outcome = "returned"
     /\ \A q \in Callers \ {p} : cs[q].call < cs[p].call)
      => browser = 0 /\ live = {}

\* C29: throughout searchWithGoogleDorks the accumulated list holds no URL
\* twice and at most maxResults entries; each URL carries the site and
\* emailProvider of the first query that returned it; only the first six
\* built queries are executed, and none once maxResults are accumulated.
C29_AccumulatedCandidates ==
  \A p \in Callers :
    cs[p].op = "searchWithGoogleDorks" =>
      LET all == cs[p].allUrls
      IN /\ \A i, j \in 1..Len(all) : all[i].url = all[j].url => i = j
         /\ Len(all) <= cs[p].limit
         /\ \A i \in 1..Len(all) :
              \E t \in cs[p].seen :
                /\ t.url = all[i].url
                /\ all[i].site = cs[p].dorkQueries[t.qi].site
                /\ all[i].emailProvider = cs[p].dorkQueries[t.qi].emailProvider
         /\ cs[p].inFlight = 1 =>
              /\ cs[p].qi \in 1..SelectedQueryCount
              /\ Len(all) < cs[p].limit

\* the second query returned a URL the first had returned, and a new one
C29_Witness ==
  \E p \in Callers :
    /\ cs[p].op = "searchWithGoogleDorks" /\ cs[p].qi = 2 /\ cs[p].pc = "sw_delay"
    /\ Len(cs[p].allUrls) = 2
    /\ \E i \in 1..Len(cs[p].urls) : cs[p].urls[i] = cs[p].allUrls[1].url
    /\ cs[p].allUrls[1].emailProvider # cs[p].allUrls[2].emailProvider

\* C30: in searchWithGoogleDorks a query that fails or returns no URLs
\* leaves the accumulated candidates as they were and does not end the
\* search; the search returns only after the last selected query or with
\* maxResults candidates, and returns every candidate gathered.
C30_FailedQueryKeepsCandidates ==
  /\ [](\A p \in Callers :
          (Idle(p) /\ cs[p].op = "searchWithGoogleDorks") =>
            /\ cs[p].outcome = "returned"
            /\ cs[p].retUrls = cs[p].allUrls
            /\ \/ cs[p].qi > Len(selectedQueries(cs[p].profile))
               \/ Len(cs[p].allUrls) >= cs[p].limit)
  /\ [][\A p \in Callers :
          (/\ cs[p].op = "searchWithGoogleDorks"
           /\ cs[p].inFlight = 1 /\ cs'[p].inFlight = 0 /\ cs'[p].lastEmpty)
            => /\ cs'[p].allUrls = cs[p].allUrls
               /\ cs'[p].pc \in {"sw_delay", "sw_loop"}]_vars

\* the search returned a candidate of the first query and one of the third,
\* the second query having failed
C30_Witness ==
  \E p \in Callers :
    /\ Idle(p) /\ cs[p].op = "searchWithGoogleDorks"
    /\ Len(cs[p].retUrls) = 2 /\ cs[p].failures >= 1
    /\ {t.qi : t \in cs[p].seen} = {1, 3}

====
